---- MODULE Spec2Model ----
(***************************************************************************)
(* Discord-Video-Hoster: upload, background transcode, job table, status   *)
(* broadcast hub and range media server.                                   *)
(*                                                                         *)
(* The repository holds three iterations of the server: main.js           *)
(* (re-encode, job table, no push channel), part_000 (remux, size-sampling *)
(* timer, WebSocket hub) and part_001 (upload and range serving only, 404  *)
(* for unknown ids).  The variable `program` says which one is running.    *)
(*                                                                         *)
(* Node runs one callback at a time.  A step of the model is one callback  *)
(* (request handler, encoder event, timer tick, socket event) or the       *)
(* continuation of the background task after its await, which runs as a    *)
(* microtask right after the encoder callback that settled the promise and *)
(* before any other callback.                                              *)
(***************************************************************************)
EXTENDS Integers, Sequences, FiniteSets, TLC

\* ---------------------------------------------------------------- bounds
MaxUploads == 1
MaxCollidingUploads == 2
MaxInterleavedUploads == 2
NumIds == 2
NumConns == 2
MaxSize == 2
MaxStreams == 1

Ids == 1..NumIds
Max(a, b) == IF a > b THEN a ELSE b
MaxTasks == Max(MaxUploads, Max(MaxCollidingUploads, MaxInterleavedUploads))
TaskIds == 1..MaxTasks
Conns == 1..NumConns
Sizes == 0..MaxSize

Programs == {"main.js", "part_000"}

\* ------------------------------------------------------------- constants
Exts == {".mp4", ".avi"}
\* a mutant that converts .mp4 uploads too
supportedExtsNoMp4 == {".mov", ".webm"}

supportedExts == {".mp4", ".mov", ".webm"}
EncoderPercents == {0, 50, 120}

FileNames == Ids \X (Exts \cup {".mp4"})
Absent == -1
NaN == -1
None == "null"
NoId == 0
NoTask == [pc |-> "none", id |-> NoId, ext |-> "", timer |-> FALSE, inputSize |-> 0,
           promise |-> "pending"]

NoRec == [id |-> 0]
NoJob == [status |-> "undefined"]
NoResp == [op |-> "none"]

NoRange == <<>>
\* A Range header after range.replace(/bytes=/, '').split('-'): a sequence of
\* tokens, each a sequence of characters.
DigitChar(n) == CASE n = 0 -> "0" [] n = 1 -> "1" [] n = 2 -> "2" [] OTHER -> "3"
FormatInt(n) == << DigitChar(n) >>

\* bytes=a-b and bytes=a-
RangeOf(a, b) == << FormatInt(a), FormatInt(b) >>
RangeFrom(a) == << FormatInt(a), << >> >>

\* bytes=x-1, bytes=0-x, bytes=-1, bytes=1x-1
MalformedRanges == { << <<"x">>, <<"1">> >>,
                     << <<"0">>, <<"x">> >>,
                     << << >>, <<"1">> >>,
                     << <<"1", "x">>, <<"1">> >> }

RangeHeaders == {NoRange}
                  \cup {RangeOf(a, b) : a \in Sizes, b \in Sizes}
                  \cup {RangeFrom(a) : a \in Sizes}
                  \cup MalformedRanges

VARIABLES program, used, nUploads, files, data, transcodeJobs, tasks,
          subscribers, sockets, streams, sent, resp, event

vars == <<program, used, nUploads, files, data, transcodeJobs, tasks,
          subscribers, sockets, streams, sent, resp, event>>

\* --------------------------------------------------------------- helpers
mimeLookup(ext) == IF ext = ".mp4" THEN "video/mp4" ELSE "video/x-msvideo"

DigitVal(ch) == CASE ch = "0" -> 0 [] ch = "1" -> 1 [] ch = "2" -> 2
                  [] ch = "3" -> 3 [] OTHER -> NaN

RECURSIVE parseDigits(_, _, _)
parseDigits(tok, i, acc) ==
    IF i > Len(tok) \/ DigitVal(tok[i]) = NaN THEN acc
    ELSE parseDigits(tok, i + 1, (IF acc = NaN THEN 0 ELSE acc) * 10 + DigitVal(tok[i]))

\* parseInt(s, 10): the value of the longest digit prefix, NaN when empty
parseInt(tok) == parseDigits(tok, 1, NaN)

\* Math.round(x / y * 100) for naturals x, y > 0
RoundPct(x, y) == (200 * x + y) \div (2 * y)

Min(a, b) == IF a < b THEN a ELSE b

NoSend == [c \in Conns |-> <<>>]
Cat(s1, s2) == [c \in Conns |-> s1[c] \o s2[c]]

\* transcodeJobs[id] || { status: 'none' }   (a mutant forgets the default)
JobAsIs(job) == job

JobOrNone(job) == IF job = NoJob THEN [status |-> "none"] ELSE job

StatusMsg(id, jobs) == [type |-> "status", id |-> id, job |-> JobOrNone(jobs[id])]

\* the continuation of an async function is queued when its promise settles
MicrotaskPending == \E k \in TaskIds : tasks[k].pc = "settled"

\* data is the content of data.json: a mapping from ids to records, or
\* something JSON.parse rejects (or a file that cannot be read)
Unreadable == [i \in Ids |-> [id |-> -1]]

\* a mutant that hands the content over unparsed
readDataRaw == data

\* readData(): the parsed mapping, {} when reading or parsing throws
readData == IF data = Unreadable THEN [i \in Ids |-> NoRec] ELSE data

\* ws.send(msg) is called for c: c is an open member of the set
SendCalled(c, set) == c \in set /\ sockets[c].readyState = "OPEN"

\* a mutant whose try/catch encloses the loop: the first send that throws ends it
LoopStopsAtThrow(c, set, throwing) ==
    c \in set /\ \A b \in set : (b < c /\ SendCalled(b, set)) => b \notin throwing

\* the for-of loop reaches member c of the set.  The try/catch is inside the
\* loop body, so a send that throws ends only its own iteration.
LoopReaches(c, set, throwing) == c \in set

\* the recipients whose ws.send threw during broadcastStatus(id)
Thrown(id, throwing) ==
    IF id \in DOMAIN subscribers
    THEN {c \in throwing : LoopReaches(c, subscribers[id], throwing)
                              /\ SendCalled(c, subscribers[id])}
    ELSE {}

\* a mutant that publishes only to sockets whose latest subscription is id
broadcastToLatest(id, jobs, throwing) ==
    [c \in Conns |->
        IF id \in DOMAIN subscribers /\ LoopReaches(c, subscribers[id], throwing)
              /\ sockets[c].readyState = "OPEN" /\ sockets[c].subscribedId = id
        THEN << StatusMsg(id, jobs) >>
        ELSE << >>]

\* sent[c] lists the messages ws.send was called with for c in the step;
\* throwing is the set of sockets whose ws.send throws
broadcastStatus(id, jobs, throwing) ==
    [c \in Conns |->
        IF id \in DOMAIN subscribers /\ LoopReaches(c, subscribers[id], throwing)
              /\ sockets[c].readyState = "OPEN"
        THEN << StatusMsg(id, jobs) >>
        ELSE << >>]

\* what a handler that called broadcastStatus(id) leaves in event
PublishEvent(name, id, throwing) ==
    [name |-> name, id |-> id, threw |-> Thrown(id, throwing)]

sendInvalidEmbed(op, id) ==
    [op |-> op, id |-> id, status |-> 200, body |-> "fallback og:image"]

\* ------------------------------------------------- POST /upload (part_000)
NewJob == [status |-> "queued", progress |-> 0, message |-> "queued", timemark |-> None]

\* a mutant whose task body starts in a later turn of the event loop
StartedLater(job) == job

\* the first statements of the background task, run inside the handler
Started(job) == [job EXCEPT !.status = "running", !.message = "starting"]

\* a mutant that never marks the job done
JobFinishedOnly(job) == [job EXCEPT !.progress = 100, !.message = "finished"]

JobDone(job) == [job EXCEPT !.status = "done", !.progress = 100, !.message = "finished"]

JobError(job, message) == [job EXCEPT !.status = "error", !.message = message]

NewTask(id, ext, size) ==
    [pc |-> "spawned", id |-> id, ext |-> ext, timer |-> FALSE, inputSize |-> size,
     promise |-> "pending"]

\* a mutant whose response waits for the conversion's result
NewRecordAwaited(id, ext, size) ==
    [id |-> id, filename |-> <<id, ".mp4">>, mime |-> mimeLookup(".mp4"),
     size |-> size, converted |-> ext \notin supportedExts]

NewRecord(id, ext, size) ==
    [id |-> id, filename |-> <<id, ext>>, mime |-> mimeLookup(ext),
     size |-> size, converted |-> FALSE]

UploadResp(id, rec) == [op |-> "upload", id |-> id, status |-> 200, body |-> rec]

\* the whole synchronous handler: rename, job creation, the background task
\* up to its await (which spawns the encoder), record insert, response
Upload(id, ext, size) ==
    /\ program = "part_000"
    /\ ~MicrotaskPending
    /\ LET k == nUploads + 1
           needs == ext \notin supportedExts
           j0 == IF transcodeJobs[id] # NoJob THEN transcodeJobs[id] ELSE NewJob
           j1 == Started(j0)
           j2 == [j1 EXCEPT !.message = "remux/re-encode (simple)"]
           jobs1 == [transcodeJobs EXCEPT ![id] = j1]
           jobs2 == [transcodeJobs EXCEPT ![id] = j2]
       IN /\ files' = [files EXCEPT ![<<id, ext>>] = size]
          /\ transcodeJobs' = IF needs THEN jobs2 ELSE transcodeJobs
          /\ IF needs
             THEN \E throwing \in SUBSET Conns :
                     /\ sent' = Cat(broadcastStatus(id, jobs1, throwing),
                                    broadcastStatus(id, jobs2, throwing))
                     /\ event' = [name |-> "Upload", id |-> id, ext |-> ext,
                                  threw |-> Thrown(id, throwing)]
             ELSE /\ sent' = NoSend
                  /\ event' = [name |-> "Upload", id |-> id, ext |-> ext]
          /\ tasks' = [tasks EXCEPT ![k] = IF needs THEN NewTask(id, ext, size) ELSE NoTask]
          /\ data' = [readData EXCEPT ![id] = NewRecord(id, ext, size)]
          /\ resp' = UploadResp(id, NewRecord(id, ext, size))
          /\ used' = used \cup {id}
          /\ nUploads' = k
    /\ UNCHANGED <<program, subscribers, sockets, streams>>

\* --------------------------------------------------- POST /upload (main.js)
UploadMain(id, ext, size) ==
    /\ program = "main.js"
    /\ ~MicrotaskPending
    /\ LET k == nUploads + 1
           needs == ext \notin supportedExts
           j1 == Started(NewJob)
       IN /\ files' = [files EXCEPT ![<<id, ext>>] = size]
          /\ transcodeJobs' = IF needs THEN [transcodeJobs EXCEPT ![id] = j1]
                              ELSE transcodeJobs
          /\ tasks' = [tasks EXCEPT ![k] = IF needs THEN NewTask(id, ext, size) ELSE NoTask]
          /\ data' = [readData EXCEPT ![id] = NewRecord(id, ext, size)]
          /\ resp' = UploadResp(id, NewRecord(id, ext, size))
          /\ used' = used \cup {id}
          /\ nUploads' = k
    /\ sent' = NoSend
    /\ UNCHANGED <<program, subscribers, sockets, streams>>
    /\ event' = [name |-> "Upload", id |-> id, ext |-> ext]

UploadNoFile ==
    /\ ~MicrotaskPending
    /\ resp' = [op |-> "upload", id |-> 0, status |-> 400, body |-> "No file uploaded"]
    /\ sent' = NoSend
    /\ UNCHANGED <<program, used, nUploads, files, data, transcodeJobs, tasks,
                   subscribers, sockets, streams>>
    /\ event' = [name |-> "UploadNoFile"]

\* ------------------------------------------------ the external encoder
ConvertedName(k) == <<tasks[k].id, ".mp4">>
FinalName(k) == <<tasks[k].id, tasks[k].ext>>

\* ffmpeg writes the output file while it runs
EncoderWrite(k, size) ==
    /\ ~MicrotaskPending
    /\ tasks[k].pc = "started"
    /\ size > files[ConvertedName(k)]
    /\ files' = [files EXCEPT ![ConvertedName(k)] = size]
    /\ sent' = NoSend
    /\ resp' = NoResp
    /\ UNCHANGED <<program, used, nUploads, data, transcodeJobs, tasks,
                   subscribers, sockets, streams>>
    /\ event' = [name |-> "EncoderWrite", id |-> tasks[k].id]

\* 'start' handler of transcodeToMp4: reset progress, publish, start the timer
EncoderStart(k) ==
    /\ program = "part_000"
    /\ ~MicrotaskPending
    /\ tasks[k].pc = "spawned"
    /\ LET id == tasks[k].id
           jobs1 == IF transcodeJobs[id] # NoJob
                    THEN [transcodeJobs EXCEPT ![id].progress = 0,
                                               ![id].message = "remuxing (copying)"]
                    ELSE transcodeJobs
       IN /\ transcodeJobs' = jobs1
          /\ IF transcodeJobs[id] # NoJob
             THEN \E throwing \in SUBSET Conns :
                     /\ sent' = broadcastStatus(id, jobs1, throwing)
                     /\ event' = PublishEvent("EncoderStart", id, throwing)
             ELSE /\ sent' = NoSend
                  /\ event' = [name |-> "EncoderStart", id |-> id]
    /\ tasks' = [tasks EXCEPT ![k].pc = "started", ![k].timer = TRUE]
    /\ resp' = NoResp
    /\ UNCHANGED <<program, used, nUploads, files, data, subscribers, sockets, streams>>

EncoderStartMain(k) ==
    /\ program = "main.js"
    /\ ~MicrotaskPending
    /\ tasks[k].pc = "spawned"
    /\ transcodeJobs' = [transcodeJobs EXCEPT ![tasks[k].id].message = "started"]
    /\ tasks' = [tasks EXCEPT ![k].pc = "started"]
    /\ sent' = NoSend
    /\ resp' = NoResp
    /\ UNCHANGED <<program, used, nUploads, files, data, subscribers, sockets, streams>>
    /\ event' = [name |-> "EncoderStart", id |-> tasks[k].id]

\* a mutant that leaves the interval running
clearIntervalSkipped(task) == task

\* if (pollInterval) clearInterval(pollInterval)
clearInterval(task) == [task EXCEPT !.timer = FALSE]

\* the setInterval callback: estimate progress from the output file's size; it
\* runs for as long as the interval is not cleared
PollTick(k) ==
    /\ program = "part_000"
    /\ ~MicrotaskPending
    /\ tasks[k].timer
    /\ LET id == tasks[k].id
           inputSize == tasks[k].inputSize
           outSize == IF files[ConvertedName(k)] = Absent THEN 0 ELSE files[ConvertedName(k)]
           pct == Min(100, RoundPct(outSize, inputSize))
           jobs1 == [transcodeJobs EXCEPT ![id].progress = pct]
       IN IF inputSize = 0 \/ transcodeJobs[id] = NoJob
          THEN /\ sent' = NoSend
               /\ event' = [name |-> "PollTick", id |-> id]
               /\ UNCHANGED transcodeJobs
          ELSE /\ transcodeJobs' = jobs1
               /\ \E throwing \in SUBSET Conns :
                     /\ sent' = broadcastStatus(id, jobs1, throwing)
                     /\ event' = PublishEvent("PollTick", id, throwing)
    /\ resp' = NoResp
    /\ UNCHANGED <<program, used, nUploads, files, data, tasks, subscribers, sockets, streams>>

\* 'progress' handler of transcodeToMp4: record the timemark when there is one
EncoderProgress(k, timemark) ==
    /\ program = "part_000"
    /\ ~MicrotaskPending
    /\ tasks[k].pc = "started"
    /\ LET id == tasks[k].id
           jobs1 == [transcodeJobs EXCEPT ![id].timemark = timemark]
       IN IF transcodeJobs[id] # NoJob /\ timemark # None
          THEN /\ transcodeJobs' = jobs1
               /\ \E throwing \in SUBSET Conns :
                     /\ sent' = broadcastStatus(id, jobs1, throwing)
                     /\ event' = PublishEvent("EncoderProgress", id, throwing)
          ELSE /\ sent' = NoSend
               /\ event' = [name |-> "EncoderProgress", id |-> id]
               /\ UNCHANGED transcodeJobs
    /\ resp' = NoResp
    /\ UNCHANGED <<program, used, nUploads, files, data, tasks, subscribers, sockets, streams>>

\* 'progress' handler of main.js: progress = Math.round(p.percent || 0)
EncoderProgressMain(k, percent) ==
    /\ program = "main.js"
    /\ ~MicrotaskPending
    /\ tasks[k].pc = "started"
    /\ transcodeJobs' = [transcodeJobs EXCEPT ![tasks[k].id].progress = percent,
                                              ![tasks[k].id].message = "running"]
    /\ sent' = NoSend
    /\ resp' = NoResp
    /\ UNCHANGED <<program, used, nUploads, files, data, tasks, subscribers, sockets, streams>>
    /\ event' = [name |-> "EncoderProgress", id |-> tasks[k].id]

\* 'error' handler of transcodeToMp4: stop the timer, reject
EncoderError(k) ==
    /\ program = "part_000"
    /\ ~MicrotaskPending
    /\ tasks[k].pc \in {"spawned", "started"}
    /\ tasks' = [tasks EXCEPT ![k] = [clearInterval(@) EXCEPT !.pc = "settled",
                                                           !.promise = "rejected"]]
    /\ sent' = NoSend
    /\ resp' = NoResp
    /\ UNCHANGED <<program, used, nUploads, files, data, transcodeJobs,
                   subscribers, sockets, streams>>
    /\ event' = [name |-> "EncoderError", id |-> tasks[k].id]

EncoderErrorMain(k) ==
    /\ program = "main.js"
    /\ ~MicrotaskPending
    /\ tasks[k].pc \in {"spawned", "started"}
    /\ transcodeJobs' = [transcodeJobs EXCEPT ![tasks[k].id] = JobError(@, "ffmpeg exited")]
    /\ tasks' = [tasks EXCEPT ![k].pc = "settled", ![k].promise = "rejected"]
    /\ sent' = NoSend
    /\ resp' = NoResp
    /\ UNCHANGED <<program, used, nUploads, files, data, subscribers, sockets, streams>>
    /\ event' = [name |-> "EncoderError", id |-> tasks[k].id]

\* 'end' handler of transcodeToMp4: stop the timer, progress 100, publish, resolve
EncoderEnd(k) ==
    /\ program = "part_000"
    /\ ~MicrotaskPending
    /\ tasks[k].pc = "started"
    /\ files[ConvertedName(k)] # Absent
    /\ LET id == tasks[k].id
           jobs1 == [transcodeJobs EXCEPT ![id].progress = 100]
       IN IF transcodeJobs[id] # NoJob
          THEN /\ transcodeJobs' = jobs1
               /\ \E throwing \in SUBSET Conns :
                     /\ sent' = broadcastStatus(id, jobs1, throwing)
                     /\ event' = PublishEvent("EncoderEnd", id, throwing)
          ELSE /\ sent' = NoSend
               /\ event' = [name |-> "EncoderEnd", id |-> id]
               /\ UNCHANGED transcodeJobs
    /\ tasks' = [tasks EXCEPT ![k] = [clearInterval(@) EXCEPT !.pc = "settled",
                                                           !.promise = "resolved"]]
    /\ resp' = NoResp
    /\ UNCHANGED <<program, used, nUploads, files, data, subscribers, sockets, streams>>

EncoderEndMain(k) ==
    /\ program = "main.js"
    /\ ~MicrotaskPending
    /\ tasks[k].pc = "started"
    /\ files[ConvertedName(k)] # Absent
    /\ transcodeJobs' = [transcodeJobs EXCEPT ![tasks[k].id] = JobDone(@)]
    /\ tasks' = [tasks EXCEPT ![k].pc = "settled", ![k].promise = "resolved"]
    /\ sent' = NoSend
    /\ resp' = NoResp
    /\ UNCHANGED <<program, used, nUploads, files, data, subscribers, sockets, streams>>
    /\ event' = [name |-> "EncoderEnd", id |-> tasks[k].id]

\* ----------------------------- the background task after its await
\* err.message of what the try block threw
ErrMessage(k) == IF tasks[k].promise = "rejected" THEN "ffmpeg exited"
                 ELSE "metadata update failed"

\* a mutant that repoints the record but forgets the converted flag
RepointedRecord(rec, name, size) ==
    [rec EXCEPT !.filename = name, !.mime = mimeLookup(name[2]), !.size = size]

ConvertedRecord(rec, name, size) ==
    [rec EXCEPT !.filename = name, !.mime = mimeLookup(name[2]),
                !.size = size, !.converted = TRUE]

\* the metadata update of the task: TRUE when statSync or writeData throws
UpdateThrows(k, writeOk) ==
    \/ files[ConvertedName(k)] = Absent
    \/ (readData[tasks[k].id] # NoRec /\ ~writeOk)

\* a mutant that saves the registry after the first assignment only
UpdatedFilenameOnly(k, writeOk) ==
    LET id == tasks[k].id
        d2 == readData
    IN IF d2[id] # NoRec /\ ~UpdateThrows(k, writeOk)
       THEN [d2 EXCEPT ![id].filename = ConvertedName(k)]
       ELSE data

\* a mutant whose record is rewritten even though the update throws
UpdatedDespiteThrow(k, writeOk) ==
    LET id == tasks[k].id
        d2 == readData
    IN IF d2[id] # NoRec /\ files[ConvertedName(k)] # Absent
       THEN [d2 EXCEPT ![id] = ConvertedRecord(d2[id], ConvertedName(k), files[ConvertedName(k)])]
       ELSE data

\* a mutant that writes back the mapping read when the task was started
UpdatedFromStaleRead(k, writeOk) ==
    LET id == tasks[k].id
        d2 == [i \in Ids |-> IF i <= id THEN readData[i] ELSE NoRec]
    IN IF d2[id] # NoRec /\ ~UpdateThrows(k, writeOk)
       THEN [d2 EXCEPT ![id] = ConvertedRecord(d2[id], ConvertedName(k), files[ConvertedName(k)])]
       ELSE data

\* the registry after the update (unchanged when there is no record or it throws)
UpdatedData(k, writeOk) ==
    LET id == tasks[k].id
        d2 == readData
    IN IF d2[id] # NoRec /\ ~UpdateThrows(k, writeOk)
       THEN [d2 EXCEPT ![id] = ConvertedRecord(d2[id], ConvertedName(k), files[ConvertedName(k)])]
       ELSE data

\* a mutant that removes every upload with the original's extension
UnlinkedByExt(k) ==
    [f \in FileNames |-> IF f[2] = tasks[k].ext THEN Absent ELSE files[f]]

\* fs.unlinkSync(finalPath), errors swallowed
Unlinked(k) == [files EXCEPT ![FinalName(k)] = Absent]

\* part_000 lines 185-210: runs as a microtask once the promise has settled.
\* writeOk = FALSE: fs.writeFileSync of the registry throws (I/O error).
Resume(k, writeOk) ==
    /\ program = "part_000"
    /\ tasks[k].pc = "settled"
    /\ LET id == tasks[k].id
           ok == tasks[k].promise = "resolved" /\ ~UpdateThrows(k, writeOk)
           jobs1 == [transcodeJobs EXCEPT ![id] =
                       IF ok THEN JobDone(@) ELSE JobError(@, ErrMessage(k))]
       IN /\ files' = IF tasks[k].promise = "resolved" THEN Unlinked(k) ELSE files
          /\ data' = IF tasks[k].promise = "resolved" THEN UpdatedData(k, writeOk) ELSE data
          /\ transcodeJobs' = jobs1
          /\ \E throwing \in SUBSET Conns :
                /\ sent' = broadcastStatus(id, jobs1, throwing)
                /\ event' = PublishEvent("Resume", id, throwing)
    /\ tasks' = [tasks EXCEPT ![k].pc = "finished"]
    /\ resp' = NoResp
    /\ UNCHANGED <<program, used, nUploads, subscribers, sockets, streams>>

\* main.js lines 108-128: the status was already set by the encoder handler;
\* the catch block sets 'error' when the promise rejected or the update throws
ResumeMain(k, writeOk) ==
    /\ program = "main.js"
    /\ tasks[k].pc = "settled"
    /\ LET id == tasks[k].id
           ok == tasks[k].promise = "resolved" /\ ~UpdateThrows(k, writeOk)
       IN /\ files' = IF tasks[k].promise = "resolved" THEN Unlinked(k) ELSE files
          /\ data' = IF tasks[k].promise = "resolved" THEN UpdatedData(k, writeOk) ELSE data
          /\ transcodeJobs' =
                IF ok THEN transcodeJobs
                ELSE [transcodeJobs EXCEPT ![id] = JobError(@, ErrMessage(k))]
    /\ tasks' = [tasks EXCEPT ![k].pc = "finished"]
    /\ sent' = NoSend
    /\ resp' = NoResp
    /\ UNCHANGED <<program, used, nUploads, subscribers, sockets, streams>>
    /\ event' = [name |-> "Resume", id |-> tasks[k].id]

\* ------------------------------------------------------- WebSocket hub
WsConnect(c) ==
    /\ program = "part_000"
    /\ ~MicrotaskPending
    /\ sockets[c].readyState = "CONNECTING"
    /\ sockets' = [sockets EXCEPT ![c].readyState = "OPEN"]
    /\ sent' = NoSend
    /\ resp' = NoResp
    /\ UNCHANGED <<program, used, nUploads, files, data, transcodeJobs, tasks,
                   subscribers, streams>>
    /\ event' = [name |-> "WsConnect", c |-> c]

SetAdd(subs, id, c) ==
    [i \in DOMAIN subs \cup {id} |->
        IF i = id THEN (IF id \in DOMAIN subs THEN subs[id] ELSE {}) \cup {c}
        ELSE subs[i]]

\* a mutant that empties the id's set
SetClear(subs, id, c) ==
    [i \in DOMAIN subs |-> IF i = id THEN {} ELSE subs[i]]

\* subscribers.get(id), then set.delete(ws) when there is a set
SetDelete(subs, id, c) ==
    [i \in DOMAIN subs |-> IF i = id THEN subs[i] \ {c} ELSE subs[i]]

\* ws.on('message'): type is "subscribe", "unsubscribe" or anything else
WsMessage(c, type, id) ==
    /\ program = "part_000"
    /\ ~MicrotaskPending
    /\ sockets[c].readyState = "OPEN"
    /\ IF type = "subscribe"
       THEN /\ subscribers' = SetAdd(subscribers, id, c)
            /\ sockets' = [sockets EXCEPT ![c].subscribedId = id]
            /\ sent' = [NoSend EXCEPT ![c] = << StatusMsg(id, transcodeJobs) >>]
       ELSE IF type = "unsubscribe"
       THEN /\ subscribers' = SetDelete(subscribers, id, c)
            /\ sent' = NoSend
            /\ UNCHANGED sockets
       ELSE /\ sent' = NoSend
            /\ UNCHANGED <<subscribers, sockets>>
    /\ resp' = NoResp
    /\ UNCHANGED <<program, used, nUploads, files, data, transcodeJobs, tasks, streams>>
    /\ event' = [name |-> type, c |-> c, id |-> id]

\* ws.on('close'): only the set of the last subscribed id is cleaned
WsClose(c) ==
    /\ program = "part_000"
    /\ ~MicrotaskPending
    /\ sockets[c].readyState = "OPEN"
    /\ sockets' = [sockets EXCEPT ![c].readyState = "CLOSED"]
    /\ subscribers' = IF sockets[c].subscribedId # NoId
                      THEN SetDelete(subscribers, sockets[c].subscribedId, c)
                      ELSE subscribers
    /\ sent' = NoSend
    /\ resp' = NoResp
    /\ UNCHANGED <<program, used, nUploads, files, data, transcodeJobs, tasks, streams>>
    /\ event' = [name |-> "WsClose", c |-> c]

\* ------------------------------------------------------- HTTP reads
TranscodeStatus(id) ==
    /\ ~MicrotaskPending
    /\ resp' = [op |-> "transcode-status", id |-> id, status |-> 200,
                body |-> JobOrNone(transcodeJobs[id])]
    /\ sent' = NoSend
    /\ UNCHANGED <<program, used, nUploads, files, data, transcodeJobs, tasks,
                   subscribers, sockets, streams>>
    /\ event' = [name |-> "TranscodeStatus", id |-> id]

\* POST /post-webhook: reads the registry and forwards an embed to the webhook
\* URL; outcome is what the upstream request does.  Only the response depends
\* on the awaited request, so the handler and its continuation are one step.
PostWebhook(hasFields, id, outcome) ==
    /\ program \in Programs
    /\ ~MicrotaskPending
    /\ resp' = [op |-> "post-webhook", id |-> id,
                status |-> IF ~hasFields THEN 400
                           ELSE IF readData[id] = NoRec THEN 404
                           ELSE IF outcome = "ok" THEN 200
                           ELSE IF outcome = "rejected" THEN 502
                           ELSE 500]
    /\ sent' = NoSend
    /\ UNCHANGED <<program, used, nUploads, files, data, transcodeJobs, tasks,
                   subscribers, sockets, streams>>
    /\ event' = [name |-> "PostWebhook", id |-> id]

\* the range branch's start and end for a file of fileSize bytes
RangeStart(range) == parseInt(range[1])
RangeEnd(range, fileSize) ==
    IF Len(range) >= 2 /\ range[2] # <<>> THEN parseInt(range[2]) ELSE fileSize - 1

\* a mutant that never compares start with end
RangeUnparsed(range, fileSize) ==
    \/ RangeStart(range) = NaN
    \/ RangeEnd(range, fileSize) = NaN

RangeInvalid(range, fileSize) ==
    \/ RangeStart(range) = NaN
    \/ RangeEnd(range, fileSize) = NaN
    \/ RangeStart(range) > RangeEnd(range, fileSize)

\* a mutant that forgets the + 1
chunkSizeShort(start, end) == end - start

chunkSize(start, end) == (end - start) + 1

\* every answer past the existence checks carries Accept-Ranges and Content-Type
VResp(id, status, cr, cl) ==
    [op |-> "v", id |-> id, status |-> status,
     body |-> IF status = 416 THEN "" ELSE "stream",
     acceptRanges |-> "bytes", contentRange |-> cr, contentLength |-> cl]

\* fs.createReadStream(filePath, { start, end }), not yet open
ReadStream(id, name, status, start, end) ==
    [id |-> id, name |-> name, status |-> status, start |-> start, end |-> end]

\* a mutant that reads the whole file from its second byte on
createReadStreamSkipping(id, name, fileSize) ==
    ReadStream(id, name, 200, 1, fileSize - 1)

\* fs.createReadStream(filePath): the whole file
createReadStream(id, name, fileSize) ==
    ReadStream(id, name, 200, 0, fileSize - 1)

\* GET /v/:id up to the creation of the read stream (the open is asynchronous);
\* notFound and fileMissing are the answers of the two early returns
ServeV(id, range, notFound, fileMissing) ==
    /\ ~MicrotaskPending
    /\ LET d == readData
           name == d[id].filename
           fileSize == files[name]
           start == RangeStart(range)
           end == RangeEnd(range, fileSize)
       IN IF d[id] = NoRec
          THEN /\ resp' = notFound
               /\ UNCHANGED streams
          ELSE IF files[name] = Absent
          THEN /\ resp' = fileMissing
               /\ UNCHANGED streams
          ELSE IF range # NoRange
          THEN IF RangeInvalid(range, fileSize)
               THEN /\ resp' = VResp(id, 416, <<"*", "*", fileSize>>, 0)
                    /\ UNCHANGED streams
               ELSE /\ Cardinality(streams) < MaxStreams
                    /\ resp' = VResp(id, 206, <<start, end, fileSize>>, chunkSize(start, end))
                    /\ streams' = streams \cup {ReadStream(id, name, 206, start, end)}
          ELSE /\ Cardinality(streams) < MaxStreams
               /\ resp' = VResp(id, 200, <<>>, fileSize)
               /\ streams' = streams \cup {createReadStream(id, name, fileSize)}
    /\ sent' = NoSend
    /\ UNCHANGED <<program, used, nUploads, files, data, transcodeJobs, tasks,
                   subscribers, sockets>>
    /\ event' = [name |-> "GetV", id |-> id, range |-> range]

GetV(id, range) ==
    /\ program \in Programs
    /\ ServeV(id, range, sendInvalidEmbed("v", id), sendInvalidEmbed("v", id))

\* GET /s/:id
Redirect(id) == [op |-> "s", id |-> id, status |-> 302, location |-> <<"/v/", id>>]

ServeS(id, notFound) ==
    /\ ~MicrotaskPending
    /\ resp' = IF readData[id] = NoRec THEN notFound ELSE Redirect(id)
    /\ sent' = NoSend
    /\ UNCHANGED <<program, used, nUploads, files, data, transcodeJobs, tasks,
                   subscribers, sockets, streams>>
    /\ event' = [name |-> "GetS", id |-> id]

GetS(id) ==
    /\ program \in Programs
    /\ ServeS(id, sendInvalidEmbed("s", id))

\* the bytes an open stream pipes: from start to end, or to the end of the file
\* when that comes first
Piped(s) == [first |-> s.start, last |-> Min(s.end, files[s.name] - 1)]

\* the read stream's 'open' or 'error' event
StreamSettle(s) ==
    /\ ~MicrotaskPending
    /\ s \in streams
    /\ streams' = streams \ {s}
    /\ resp' = IF files[s.name] # Absent
               THEN [op |-> "stream", id |-> s.id, status |-> s.status, body |-> s.name,
                     first |-> Piped(s).first, last |-> Piped(s).last]
               ELSE [op |-> "stream", id |-> s.id, status |-> 500, body |-> "ENOENT"]
    /\ sent' = NoSend
    /\ UNCHANGED <<program, used, nUploads, files, data, transcodeJobs, tasks,
                   subscribers, sockets>>
    /\ event' = [name |-> "StreamSettle", id |-> s.id, stream |-> s]

\* the state of a server that has just started
Booted ==
    /\ used = {}
    /\ nUploads = 0
    /\ files = [f \in FileNames |-> Absent]
    /\ data = [i \in Ids |-> NoRec]
    /\ transcodeJobs = [i \in Ids |-> NoJob]
    /\ tasks = [k \in TaskIds |-> NoTask]
    /\ subscribers = [i \in {} |-> {}]
    /\ sockets = [c \in Conns |-> [readyState |-> "CONNECTING", subscribedId |-> NoId]]
    /\ streams = {}
    /\ sent = NoSend
    /\ resp = NoResp
    /\ event = [name |-> "init"]

Init == program \in Programs /\ Booted

\* uuidv4() returns an id it has not returned before; ids are opaque, so the
\* least unused one stands for any of them
FreshIds == {id \in Ids \ used : \A other \in Ids \ used : id <= other}

Uploads000 ==
    /\ nUploads < MaxUploads
    /\ \E id \in FreshIds, ext \in Exts, size \in Sizes : Upload(id, ext, size)

UploadsMain ==
    /\ nUploads < MaxUploads
    /\ \E id \in FreshIds, ext \in Exts, size \in Sizes : UploadMain(id, ext, size)

Ffmpeg == \E k \in TaskIds, size \in Sizes : EncoderWrite(k, size)

Encoder000 ==
    \/ \E k \in TaskIds : EncoderStart(k)
    \/ \E k \in TaskIds : PollTick(k)
    \/ \E k \in TaskIds, tm \in {None, "00:00:01"} : EncoderProgress(k, tm)
    \/ \E k \in TaskIds : EncoderError(k)
    \/ \E k \in TaskIds : EncoderEnd(k)
    \/ \E k \in TaskIds, writeOk \in BOOLEAN : Resume(k, writeOk)

EncoderMain ==
    \/ \E k \in TaskIds : EncoderStartMain(k)
    \/ \E k \in TaskIds, pct \in EncoderPercents : EncoderProgressMain(k, pct)
    \/ \E k \in TaskIds : EncoderErrorMain(k)
    \/ \E k \in TaskIds : EncoderEndMain(k)
    \/ \E k \in TaskIds, writeOk \in BOOLEAN : ResumeMain(k, writeOk)

Hub ==
    \/ \E c \in Conns : WsConnect(c)
    \/ \E c \in Conns, type \in {"subscribe", "unsubscribe", "ping"}, id \in Ids :
          WsMessage(c, type, id)
    \/ \E c \in Conns : WsClose(c)

Http ==
    \/ UploadNoFile
    \/ \E id \in Ids : TranscodeStatus(id)
    \/ \E id \in Ids, range \in RangeHeaders : GetV(id, range)
    \/ \E id \in Ids : GetS(id)
    \/ \E hasFields \in BOOLEAN, id \in Ids, outcome \in {"ok", "rejected", "throws"} :
          PostWebhook(hasFields, id, outcome)
    \/ \E s \in streams : StreamSettle(s)

\* Uploads, transcodes and the HTTP reads, for either program.  Socket events
\* change only subscribers, sockets and sent, which no action of Next reads.
Next == Uploads000 \/ UploadsMain \/ Ffmpeg \/ Encoder000 \/ EncoderMain \/ Http

Spec == Init /\ [][Next]_vars

\* Uploads, transcodes and the WebSocket hub of part_000.  The HTTP reads
\* change only resp and streams, which no action of NextHub reads.
InitHub == Init /\ program = "part_000"

NextHub == Uploads000 \/ Ffmpeg \/ Encoder000 \/ Hub

SpecHub == InitHub /\ [][NextHub]_vars

\* Uploads and transcodes of either program with everything that shows a job
\* to a client: the hub's status messages and the /transcode-status poll.
NextObserved ==
    \/ Uploads000 \/ UploadsMain \/ Ffmpeg \/ Encoder000 \/ EncoderMain \/ Hub
    \/ \E id \in Ids : TranscodeStatus(id)

SpecObserved == Init /\ [][NextObserved]_vars

Colliding000 ==
    /\ nUploads < MaxCollidingUploads
    /\ \E id \in Ids, ext \in Exts, size \in Sizes : Upload(id, ext, size)

CollidingMain ==
    /\ nUploads < MaxCollidingUploads
    /\ \E id \in Ids, ext \in Exts, size \in Sizes : UploadMain(id, ext, size)

\* The same uploads and transcodes when uuidv4() repeats an id.
NextCollide == Colliding000 \/ CollidingMain \/ Ffmpeg \/ Encoder000 \/ EncoderMain

SpecCollide == Init /\ [][NextCollide]_vars

\* ------------------------------------------- the first iteration (part_001)
\* no transcode, no fallback page: unknown ids and missing files answer 404
NewRecord001(id, ext, size) ==
    [id |-> id, filename |-> <<id, ext>>, mime |-> mimeLookup(ext), size |-> size]

Upload001(id, ext, size) ==
    /\ program = "part_001"
    /\ ~MicrotaskPending
    /\ files' = [files EXCEPT ![<<id, ext>>] = size]
    /\ data' = [readData EXCEPT ![id] = NewRecord001(id, ext, size)]
    /\ resp' = UploadResp(id, NewRecord001(id, ext, size))
    /\ used' = used \cup {id}
    /\ nUploads' = nUploads + 1
    /\ sent' = NoSend
    /\ UNCHANGED <<program, transcodeJobs, tasks, subscribers, sockets, streams>>
    /\ event' = [name |-> "Upload", id |-> id, ext |-> ext]

NotFound(op, id, text) == [op |-> op, id |-> id, status |-> 404, body |-> text]

GetV001(id, range) ==
    /\ program = "part_001"
    /\ ServeV(id, range, NotFound("v", id, "Not found"), NotFound("v", id, "File missing"))

GetS001(id) ==
    /\ program = "part_001"
    /\ ServeS(id, NotFound("s", id, "Not found"))

Init001 == program = "part_001" /\ Booted

Uploads001 ==
    /\ nUploads < MaxUploads
    /\ \E id \in FreshIds, ext \in Exts, size \in Sizes : Upload001(id, ext, size)

Http001 ==
    \/ UploadNoFile
    \/ \E id \in Ids, range \in RangeHeaders : GetV001(id, range)
    \/ \E id \in Ids : GetS001(id)
    \/ \E s \in streams : StreamSettle(s)

Next001 == Uploads001 \/ Http001

Spec001 == Init001 /\ [][Next001]_vars

\* Several uploads with fresh ids whose transcodes run at the same time.
Interleaved000 ==
    /\ nUploads < MaxInterleavedUploads
    /\ \E id \in FreshIds, ext \in Exts, size \in Sizes : Upload(id, ext, size)

InterleavedMain ==
    /\ nUploads < MaxInterleavedUploads
    /\ \E id \in FreshIds, ext \in Exts, size \in Sizes : UploadMain(id, ext, size)

NextInterleaved == Interleaved000 \/ InterleavedMain \/ Ffmpeg \/ Encoder000 \/ EncoderMain

SpecInterleaved == Init /\ [][NextInterleaved]_vars

\* data.json becomes unreadable (edited by hand, damaged on disk)
RegistryCorrupted ==
    /\ ~MicrotaskPending
    /\ data # Unreadable
    /\ data' = Unreadable
    /\ sent' = NoSend
    /\ resp' = NoResp
    /\ UNCHANGED <<program, used, nUploads, files, transcodeJobs, tasks,
                   subscribers, sockets, streams>>
    /\ event' = [name |-> "RegistryCorrupted"]

\* Interleaved uploads and transcodes, short-link lookups, and a registry file
\* that can become unreadable at any moment.
NextCorrupt ==
    \/ NextInterleaved
    \/ RegistryCorrupted
    \/ \E id \in Ids : GetS(id)

SpecCorrupt == Init /\ [][NextCorrupt]_vars

\* Uploads and transcodes alone, for either program.
NextJobs == Uploads000 \/ UploadsMain \/ Ffmpeg \/ Encoder000 \/ EncoderMain

SpecJobs == Init /\ [][NextJobs]_vars

\* The event loop's guarantees: a spawned encoder eventually emits its events
\* and a queued continuation runs.
Fairness ==
    \A k \in 1..MaxUploads :
       /\ WF_vars(EncoderStart(k) \/ EncoderStartMain(k))
       /\ WF_vars(\E size \in Sizes : EncoderWrite(k, size))
       /\ WF_vars(EncoderEnd(k) \/ EncoderEndMain(k))
       /\ WF_vars(\E writeOk \in BOOLEAN : Resume(k, writeOk) \/ ResumeMain(k, writeOk))

SpecLive == SpecJobs /\ Fairness

\* ------------------------------------------------------------- claims
Terminal(job) == job.status \in {"done", "error"}

\* a request handler, socket handler or timer callback can run
HandlerCanRun == ~MicrotaskPending

\* C1: once a job's status is 'done' or 'error', no later step changes it
C1_TerminalStatusNeverChanges ==
    [][\A id \in Ids :
          Terminal(transcodeJobs[id]) =>
             transcodeJobs'[id].status = transcodeJobs[id].status]_vars

\* C2: whenever a request handler can run, the file named by each registry
\* record exists in the uploads directory
C2_RecordFileExists ==
    HandlerCanRun =>
       \A id \in Ids : data[id] # NoRec => files[data[id].filename] # Absent

\* C3: a read stream created by GET /v/:id for a file that existed never
\* ends in a stream error / status 500
C3_StreamNeverFails ==
    event.name = "StreamSettle" => resp.status # 500

\* C4: after the close handler has run for a connection, no subscriber set
\* contains that connection
C4_ClosedInNoSet ==
    \A c \in Conns :
       sockets[c].readyState = "CLOSED" =>
          \A id \in DOMAIN subscribers : c \notin subscribers[id]


\* C5 as stated: a transcode whose encoder emitted 'end' finishes with the
\* job in status 'done' and progress 100
C5_EndImpliesDone ==
    \A k \in TaskIds :
       (tasks[k].pc = "finished" /\ tasks[k].promise = "resolved") =>
          /\ transcodeJobs[tasks[k].id].status = "done"
          /\ transcodeJobs[tasks[k].id].progress = 100

\* the job's final state after the encoder's 'end': done with progress 100, or
\* error with the message of the failed metadata update
FinalAfterEnd(job) ==
    \/ job.status = "done" /\ job.progress = 100 /\ job.message = "finished"
    \/ job.status = "error" /\ job.message = "metadata update failed"

\* C5 (amended): once the encoder has emitted 'end', the job eventually is, and
\* from then on stays, either done with progress 100 or, when the metadata
\* update threw, error
C5_EndLeadsToFinal ==
    \A k \in TaskIds :
       (tasks[k].promise = "resolved") ~>
          [](tasks[k].promise = "resolved" /\ FinalAfterEnd(transcodeJobs[tasks[k].id]))

C5_Witness ==
    \E k \in TaskIds :
       /\ tasks[k].pc = "finished" /\ tasks[k].promise = "resolved"
       /\ transcodeJobs[tasks[k].id].status = "done"
       /\ transcodeJobs[tasks[k].id].progress = 100

\* C6: whenever a handler can observe status 'done', the record of the id is
\* converted, names <id>.mp4, carries that file's size, and the file exists
C6_DoneImpliesRecordUpdated ==
    HandlerCanRun =>
       \A id \in Ids :
          transcodeJobs[id].status = "done" =>
             /\ data[id] # NoRec
             /\ data[id].converted
             /\ data[id].filename = <<id, ".mp4">>
             /\ files[<<id, ".mp4">>] # Absent
             /\ data[id].size = files[<<id, ".mp4">>]
             /\ data[id].mime = "video/mp4"

C6_Witness ==
    /\ HandlerCanRun
    /\ \E id \in Ids : transcodeJobs[id].status = "done" /\ data[id].size > 0

\* C7: whenever a job is in status 'error', the uploaded file still exists and
\* the record still names it with converted = false
C7_ErrorKeepsOriginal ==
    HandlerCanRun =>
       \A k \in TaskIds :
          (tasks[k].pc = "finished" /\ transcodeJobs[tasks[k].id].status = "error") =>
             /\ files[FinalName(k)] # Absent
             /\ data[tasks[k].id].filename = FinalName(k)
             /\ ~data[tasks[k].id].converted

\* C8: no task is created for an id whose job is queued or running (the
\* creation fails and leaves the job as it is)
Live(job) == job.status \in {"queued", "running"}

C8_NoSecondLiveJob ==
    [][\A k \in TaskIds :
          (tasks[k].pc = "none" /\ tasks'[k].pc # "none") =>
             ~Live(transcodeJobs[tasks'[k].id])]_vars

\* C9: a subscribe message puts the connection in the id's set and sends it,
\* and nobody else, exactly one status message with the job's current state
\* ({status: 'none'} when there is no job)
C9_SubscribeSendsCurrentState ==
    event.name = "subscribe" =>
       /\ event.id \in DOMAIN subscribers
       /\ event.c \in subscribers[event.id]
       /\ sent[event.c] =
             << [type |-> "status", id |-> event.id,
                 job |-> IF transcodeJobs[event.id] = NoJob
                         THEN [status |-> "none"]
                         ELSE transcodeJobs[event.id]] >>
       /\ \A c \in Conns \ {event.c} : sent[c] = << >>

C9_Witness ==
    /\ event.name = "subscribe"
    /\ transcodeJobs[event.id].status \in {"done", "error"}
    /\ Len(sent[event.c]) = 1
    /\ sent[event.c][1].job.status = transcodeJobs[event.id].status

\* C10: a step that changes a job's status sends every open subscriber of the
\* id a status message, and the last one sent in the step carries the new status
C10_StatusChangePublished ==
    [][\A id \in Ids :
          transcodeJobs'[id].status # transcodeJobs[id].status =>
             \A c \in Conns :
                (id \in DOMAIN subscribers /\ c \in subscribers[id]
                    /\ sockets[c].readyState = "OPEN") =>
                   /\ sent'[c] # << >>
                   /\ sent'[c][Len(sent'[c])].id = id
                   /\ sent'[c][Len(sent'[c])].job.status = transcodeJobs'[id].status]_vars

C10_Witness ==
    /\ event.name = "Resume"
    /\ transcodeJobs[event.id].status = "done"
    /\ \E c \in Conns :
          /\ event.id \in DOMAIN subscribers /\ c \in subscribers[event.id]
          /\ sockets[c].readyState = "OPEN"
          /\ sockets[c].subscribedId # event.id
          /\ sent[c] = << StatusMsg(event.id, transcodeJobs) >>

\* the last handler called broadcastStatus(event.id)
Published == "threw" \in DOMAIN event

\* C11: a step that publishes an id calls send, with the job's current state
\* last, for every open member of the id's set and for nobody else, whichever
\* sends threw; the handler that published runs on to its end
C11_PublishReachesEveryOpenMember ==
    Published =>
       /\ \A c \in Conns :
             IF event.id \in DOMAIN subscribers /\ c \in subscribers[event.id]
                   /\ sockets[c].readyState = "OPEN"
             THEN /\ sent[c] # << >>
                  /\ sent[c][Len(sent[c])] =
                        [type |-> "status", id |-> event.id,
                         job |-> IF transcodeJobs[event.id] = NoJob
                                 THEN [status |-> "none"]
                                 ELSE transcodeJobs[event.id]]
             ELSE sent[c] = << >>
       /\ event.name = "Upload" =>
             data[event.id] # NoRec /\ transcodeJobs[event.id].status = "running"
       /\ event.name = "Resume" => Terminal(transcodeJobs[event.id])

C11_Witness ==
    /\ Published
    /\ \E b \in event.threw, c \in Conns \ event.threw :
          /\ b < c
          /\ c \in subscribers[event.id]
          /\ sent[c] = << StatusMsg(event.id, transcodeJobs) >>

\* the record GET /v/:id read and the size of the file it names
Served(id) == data[id]
ServedSize(id) == files[data[id].filename]
FileServed(id) == data[id] # NoRec /\ files[data[id].filename] # Absent

\* C12: a request with Range bytes=a-b, 0 <= a <= b < size, is answered 206 with
\* Content-Range a-b/size and Content-Length b-a+1, and a stream for bytes a..b
\* of the file is created; when that stream opens it pipes exactly bytes a..b
C12_ValidRangeServed ==
    /\ event.name = "GetV" =>
          \A a \in Sizes, b \in Sizes :
             (event.range = RangeOf(a, b) /\ FileServed(event.id)
                 /\ a <= b /\ b < ServedSize(event.id)) =>
                /\ resp.status = 206
                /\ resp.contentRange = <<a, b, ServedSize(event.id)>>
                /\ resp.contentLength = b - a + 1
                /\ \E s \in streams :
                      /\ s.name = Served(event.id).filename
                      /\ s.start = a /\ s.end = b
    /\ (event.name = "StreamSettle" /\ resp.status = 206
           /\ event.stream.end < files[event.stream.name]) =>
          /\ resp.body = event.stream.name
          /\ resp.first = event.stream.start
          /\ resp.last = event.stream.end

C12_Witness ==
    /\ event.name = "StreamSettle"
    /\ resp.status = 206
    /\ files[event.stream.name] = 2
    /\ resp.first = 0 /\ resp.last = 1

\* a token of the header that has no leading decimal digit
NoLeadingDigit(tok) == tok = << >> \/ tok[1] \notin {"0", "1", "2", "3"}

\* the headers C13 is about, for a file of size bytes: a bound that is not a
\* number, or a start greater than the end (the end of bytes=a- is size - 1)
Unsatisfied(range, size) ==
    \/ NoLeadingDigit(range[1])
    \/ (range[2] # << >> /\ NoLeadingDigit(range[2]))
    \/ \E a \in Sizes, b \in Sizes : range = RangeOf(a, b) /\ a > b
    \/ \E a \in Sizes : range = RangeFrom(a) /\ a > size - 1

C14_StartBeyondSizeRejected ==
    event.name = "GetV" =>
       \A a \in Sizes, b \in Sizes :
          (event.range = RangeOf(a, b) /\ FileServed(event.id)
              /\ a <= b /\ a >= ServedSize(event.id)) =>
             resp.status = 416

\* C15: what a 206 response advertises is what its stream pipes: Content-Length
\* is end - start + 1 and the stream, once open, pipes that many bytes
C15_AdvertisedSpanDelivered ==
    /\ (event.name = "GetV" /\ resp.status = 206) =>
          resp.contentLength = resp.contentRange[2] - resp.contentRange[1] + 1
    /\ (event.name = "StreamSettle" /\ resp.status = 206) =>
          resp.last - resp.first + 1 = event.stream.end - event.stream.start + 1

\* C16: a request without a Range header for an id whose record and file exist
\* is answered 200 with Accept-Ranges bytes and Content-Length equal to the
\* file's size, and a stream of the whole file is created; when that stream
\* opens it pipes the file from its first byte to its last
C16_FullFileServed ==
    /\ (event.name = "GetV" /\ event.range = NoRange /\ FileServed(event.id)) =>
          /\ resp.status = 200
          /\ resp.acceptRanges = "bytes"
          /\ resp.contentLength = ServedSize(event.id)
          /\ \E s \in streams :
                /\ s.name = Served(event.id).filename
                /\ s.start = 0 /\ s.end = ServedSize(event.id) - 1
    /\ (event.name = "StreamSettle" /\ resp.status = 200) =>
          /\ resp.body = event.stream.name
          /\ resp.first = 0
          /\ resp.last = files[event.stream.name] - 1

C16_Witness ==
    /\ event.name = "StreamSettle"
    /\ resp.status = 200
    /\ files[event.stream.name] = 2
    /\ resp.first = 0 /\ resp.last = 1

\* id was uploaded in a container that needs no conversion and has no job
KeptAsUploaded(id) ==
    /\ data[id] # NoRec
    /\ data[id].filename[2] \in {".mp4", ".mov", ".webm"}
    /\ ~data[id].converted
    /\ transcodeJobs[id] = NoJob

\* C17: an upload with extension .mp4, .mov or .webm creates no job and a
\* record with converted = false naming the uploaded file; from then on no step
\* creates a job for the id or changes its record or its file, a status request
\* answers {status: 'none'}, and GET /v/:id serves that file
C17_SupportedUploadUntouched ==
    [][/\ (event'.name = "Upload" /\ event'.ext \in {".mp4", ".mov", ".webm"}) =>
             /\ transcodeJobs'[event'.id] = NoJob
             /\ data'[event'.id] =
                   [id |-> event'.id, filename |-> <<event'.id, event'.ext>>,
                    mime |-> "video/mp4", size |-> files'[<<event'.id, event'.ext>>],
                    converted |-> FALSE]
             /\ files'[<<event'.id, event'.ext>>] # Absent
       /\ \A id \in Ids :
             KeptAsUploaded(id) =>
                /\ transcodeJobs'[id] = NoJob
                /\ data'[id] = data[id]
                /\ files'[data[id].filename] = files[data[id].filename]
                /\ (event'.name = "TranscodeStatus" /\ event'.id = id) =>
                      resp'.body = [status |-> "none"]
                /\ (event'.name = "GetV" /\ event'.id = id) =>
                      /\ resp'.status \in {200, 206, 416}
                      /\ streams' \ streams \subseteq
                            {s \in streams' : s.name = data[id].filename}
                /\ (event'.name = "StreamSettle" /\ event'.id = id) =>
                      resp'.status # 500 /\ resp'.body = data[id].filename
      ]_vars

C17_Witness ==
    /\ event.name = "StreamSettle"
    /\ KeptAsUploaded(event.id)
    /\ resp.status = 200
    /\ resp.body = <<event.id, ".mp4">>
    /\ resp.first = 0 /\ resp.last = 1

\* C18: GET /v/:id for an id without a record, or whose record names a missing
\* file, is answered 200 with the fallback page and its og:image tag; GET /s/:id
\* answers 302 to /v/:id when the id has a record and the fallback page otherwise
C18_UnknownIdGetsFallback ==
    /\ (event.name = "GetV" /\ ~FileServed(event.id)) =>
          /\ resp.status = 200
          /\ resp.body = "fallback og:image"
    /\ event.name = "GetS" =>
          IF data[event.id] # NoRec
          THEN resp.status = 302 /\ resp.location = <<"/v/", event.id>>
          ELSE resp.status = 200 /\ resp.body = "fallback og:image"

\* the values written at upload, for an upload of extension ext
AsUploaded(id, rec) ==
    /\ ~rec.converted
    /\ \E ext \in Exts :
          /\ rec.filename = <<id, ext>>
          /\ rec.mime = (IF ext = ".mp4" THEN "video/mp4" ELSE "video/x-msvideo")
          /\ files[<<id, ext>>] # Absent => rec.size = files[<<id, ext>>]
          /\ \A k \in TaskIds :
                tasks[k].id = id => (rec.size = tasks[k].inputSize /\ ext = tasks[k].ext)

\* the values written by the metadata update of a transcode that succeeded
AsConverted(id, rec) ==
    /\ rec.converted
    /\ rec.filename = <<id, ".mp4">>
    /\ rec.mime = "video/mp4"
    /\ rec.size = files[<<id, ".mp4">>]
    /\ \E k \in TaskIds :
          tasks[k].id = id /\ tasks[k].pc = "finished" /\ tasks[k].promise = "resolved"

\* C19: in every state the (filename, mime, size, converted) of each record is
\* either entirely as written at upload or entirely as written by the
\* successful transcode, so no handler reads a partly converted record
C19_RecordNeverPartial ==
    \A id \in Ids :
       data[id] # NoRec => (AsUploaded(id, data[id]) \/ AsConverted(id, data[id]))

C19_Witness ==
    /\ event.name = "GetV"
    /\ FileServed(event.id)
    /\ resp.status = 200
    /\ AsConverted(event.id, data[event.id])
    /\ \E k \in TaskIds :
          tasks[k].id = event.id /\ tasks[k].inputSize # data[event.id].size

TranscodeEvents ==
    {"EncoderWrite", "EncoderStart", "PollTick", "EncoderProgress",
     "EncoderError", "EncoderEnd", "Resume"}

C22_UnreadableRegistryReadsEmpty ==
    [][data = Unreadable =>
          /\ event'.name = "GetS" =>
                (resp'.status = 200 /\ resp'.body = "fallback og:image")
          /\ data' # data =>
                /\ event'.name = "Upload"
                /\ resp'.status = 200
                /\ \A id \in Ids :
                      data'[id] = (IF id = event'.id THEN resp'.body ELSE NoRec)]_vars

C22_Witness ==
    /\ event.name = "Upload"
    /\ Cardinality(used) = 2
    /\ \E id \in used : data[id] = NoRec
    /\ data[event.id] = resp.body

\* C23: an unsubscribe message for id takes the connection, and nothing else,
\* out of id's set; when the connection is not in that set, or id has no set,
\* the hub stays exactly as it was (so a second unsubscribe changes nothing);
\* no set is created, no other id's set changes, nothing is sent
C23_UnsubscribeIdempotent ==
    [][event'.name = "unsubscribe" =>
          /\ DOMAIN subscribers' = DOMAIN subscribers
          /\ \A id \in DOMAIN subscribers :
                subscribers'[id] =
                   (IF id = event'.id THEN subscribers[id] \ {event'.c}
                    ELSE subscribers[id])
          /\ (event'.id \notin DOMAIN subscribers
                 \/ event'.c \notin subscribers[event'.id]) =>
                subscribers' = subscribers
          /\ sockets' = sockets
          /\ \A c \in Conns : sent'[c] = << >>]_vars

C23_Witness ==
    /\ event.name = "unsubscribe"
    /\ event.id \in DOMAIN subscribers
    /\ sockets[event.c].subscribedId = event.id
    /\ event.c \notin subscribers[event.id]
    /\ \E c \in Conns \ {event.c} : c \in subscribers[event.id]

\* the edges of the job state machine; a job is created and set running in
\* one synchronous stretch of the upload handler
StatusEdges ==
    { <<"undefined", "running">>, <<"queued", "running">>,
      <<"running", "done">>, <<"running", "error">> }

\* C24: every change of a job's status is one of the edges queued->running,
\* running->done, running->error, and a progress update leaves the status
\* at running
C24_StatusChangesAlongEdges ==
    [][\A id \in Ids :
          /\ transcodeJobs'[id].status # transcodeJobs[id].status =>
                <<transcodeJobs[id].status, transcodeJobs'[id].status>> \in StatusEdges
          /\ (event'.name \in {"EncoderProgress", "PollTick"} /\ event'.id = id
                 /\ transcodeJobs[id] # NoJob) =>
                (transcodeJobs[id].status = "running"
                    /\ transcodeJobs'[id].status = "running")]_vars

\* C25: a job's progress is always an integer in 0..100; a size-based sample
\* sets it to min(100, round(100 * outputSize / inputSize)), and takes no
\* sample when the input size is 0
C25_ProgressWithinPercent ==
    [][/\ \A id \in Ids :
             transcodeJobs'[id] # NoJob => transcodeJobs'[id].progress \in 0..100
       /\ (event'.name = "PollTick" /\ transcodeJobs[event'.id] # NoJob) =>
             \E k \in TaskIds :
                /\ tasks[k].id = event'.id
                /\ tasks[k].timer
                /\ LET inputSize == tasks[k].inputSize
                       outSize == IF files[ConvertedName(k)] = Absent THEN 0
                                  ELSE files[ConvertedName(k)]
                       p == transcodeJobs'[event'.id].progress
                   IN IF inputSize = 0
                      THEN transcodeJobs' = transcodeJobs /\ (\A c \in Conns : sent'[c] = << >>)
                      ELSE \/ p = 100 /\ 200 * outSize + inputSize >= 200 * inputSize
                           \/ /\ p < 100
                              /\ 2 * p * inputSize <= 200 * outSize + inputSize
                              /\ 200 * outSize + inputSize < 2 * (p + 1) * inputSize]_vars

\* C26: the upload of an unsupported container answers with converted = false
\* and the uploaded filename while the job is still running, with the record
\* already inserted; a job turns 'done' or 'error' only in a later step of
\* the encoder or of the task's continuation, which finds the record in place
C26_ResponseBeforeCompletion ==
    [][/\ (event'.name = "Upload" /\ event'.ext \notin {".mp4", ".mov", ".webm"}) =>
             /\ resp'.op = "upload" /\ resp'.status = 200
             /\ resp'.body.converted = FALSE
             /\ resp'.body.filename = <<event'.id, event'.ext>>
             /\ data'[event'.id] = resp'.body
             /\ transcodeJobs'[event'.id].status = "running"
       /\ \A id \in Ids :
             (Terminal(transcodeJobs'[id]) /\ ~Terminal(transcodeJobs[id])) =>
                /\ event'.name \in {"EncoderError", "EncoderEnd", "Resume"}
                /\ event'.id = id
                /\ data[id] # NoRec
                /\ data[id].id = id
       /\ event'.name = "Resume" => data[event'.id].id = event'.id]_vars

C26_Witness ==
    /\ event.name = "Upload"
    /\ event.ext = ".avi"
    /\ resp.body.converted = FALSE
    /\ resp.body.filename = <<event.id, ".avi">>
    /\ transcodeJobs[event.id].status = "running"
    /\ \E other \in Ids \ {event.id} : Terminal(transcodeJobs[other])

\* C27: status 'queued' is never observable: no job entry holds it between
\* two steps, no /transcode-status response carries it and no status message
\* delivered to a connection carries it
C27_QueuedNeverObserved ==
    /\ \A id \in Ids : transcodeJobs[id].status # "queued"
    /\ (resp # NoResp /\ resp.op = "transcode-status") => resp.body.status # "queued"
    /\ \A c \in Conns : \A i \in 1..Len(sent[c]) : sent[c][i].job.status # "queued"

C27_Witness ==
    /\ event.name = "Upload"
    /\ event.ext = ".avi"
    /\ \E c \in Conns :
          /\ Len(sent[c]) = 2
          /\ sent[c][1].job.status = "running"
          /\ sent[c][1].job.message = "starting"

\* C28: no registry update is lost: after any interleaving of uploads and
\* transcode completions every uploaded id has its record, and whenever a
\* handler can run every job that is 'done' has a record with converted = true
\* naming the converted file
C28_NoLostUpdate ==
    \A id \in used :
       /\ data[id] # NoRec
       /\ data[id].id = id
       /\ (HandlerCanRun /\ transcodeJobs[id] # NoJob /\ transcodeJobs[id].status = "done") =>
             (data[id].converted = TRUE /\ data[id].filename = <<id, ".mp4">>)

C28_Witness ==
    /\ event.name = "Resume"
    /\ used = Ids
    /\ \A id \in Ids :
          /\ transcodeJobs[id] # NoJob
          /\ transcodeJobs[id].status = "done"
          /\ data[id].converted = TRUE

\* C29: once a job is 'done' or 'error' the job entry never changes again and
\* nothing more is published for its id: the sampling timer is cleared before
\* the continuation sets the terminal status, and the only message for the id
\* a later step sends is the reply to a new subscribe, carrying the same job
C29_NothingAfterTerminal ==
    [][/\ \A k \in TaskIds : tasks[k].pc \in {"settled", "finished"} => ~tasks[k].timer
       /\ \A id \in Ids :
             (transcodeJobs[id] # NoJob /\ Terminal(transcodeJobs[id])) =>
                /\ transcodeJobs'[id] = transcodeJobs[id]
                /\ ~("threw" \in DOMAIN event' /\ event'.id = id)
                /\ \A c \in Conns : \A i \in 1..Len(sent'[c]) :
                      sent'[c][i].id = id =>
                         /\ event'.name = "subscribe"
                         /\ event'.c = c
                         /\ sent'[c][i].job = transcodeJobs[id]]_vars

C29_Witness ==
    /\ event.name \in {"unsubscribe", "ping", "WsClose"}
    /\ \E id \in Ids :
          /\ transcodeJobs[id] # NoJob
          /\ transcodeJobs[id].status = "done"
          /\ \E k \in TaskIds : tasks[k].id = id /\ tasks[k].pc = "finished"
          /\ id \in DOMAIN subscribers
          /\ \E c \in Conns : c \in subscribers[id] /\ sockets[c].readyState = "OPEN"

====
